---- MODULE Spec2Model ----
(***************************************************************************)
(* Model of scripts/get_musicbrainz_discid.py: a command-line wrapper that *)
(* imports the discid provider, checks its argument list, calls            *)
(* discid.read(device) once and prints the disc ID or a diagnostic.        *)
(*                                                                         *)
(* Python's argv[0] is argv[1] here (TLA+ sequences are 1-based).          *)
(* An unbound Python name is the empty sequence, a bound one is <<value>>. *)
(* stdout and stderr are the text written so far.                          *)
(***************************************************************************)
EXTENDS Integers, Sequences, FiniteSets

\* Largest number of positional arguments tried (arguments after argv[0]).
MaxArgs == 2

\* Names the script may be invoked under (sys.argv[0]).
Progs == {"get_musicbrainz_discid.py", "./discid"}

\* Values a caller may pass as arguments; the script does not validate them.
Devices == {"/dev/sr0", ""}

\* Disc IDs the provider may return.
DiscIds == {"abc123XYZ", "lwHl8fGzJyLXQR33ug60E8jhf4k-"}

\* Messages a DiscError may carry.
Messages == {"no disc in drive", "cannot read table of contents"}

\* Every argument list: the program name followed by 0..MaxArgs arguments.
ArgLists ==
    { <<p>> \o a : p \in Progs,
                   a \in UNION { [1..n -> Devices] : n \in 0..MaxArgs } }

VARIABLES
    pc,          \* position of the script
    installed,   \* environment: "import discid" can succeed
    argv,        \* sys.argv
    discid,      \* TRUE once the module discid is bound (line 9)
    device,      \* the name "device" (line 19)
    reads,       \* the device of every discid.read call made so far
    disc,        \* the object returned by discid.read (line 22)
    e,           \* the DiscError caught (line 24)
    stdout,      \* text written to sys.stdout
    stderr,      \* text written to sys.stderr
    exitStatus,  \* <<>> while running, <<n>> once the process has exited
    path         \* history: every position the script has been at

vars == <<pc, installed, argv, discid, device, reads, disc, e,
          stdout, stderr, exitStatus, path>>

Terminal == {"Success", "DependencyMissing", "UsageError", "DiscReadError"}

\* print(s, file=stream): the text followed by a newline.
WriteLine(stream, s) == stream \o s \o "\n"

\* Line 11 and line 12.
NotInstalledMsg == "ERROR: python-discid not installed"

InstallHintMsg == "Install with: pip3 install --break-system-packages discid"

\* Variant of UsageMsg: the synopsis names the script, not sys.argv[0].
UsageMsgFixedName(av) == "Usage: get_musicbrainz_discid.py <device>"

\* Line 16: f"Usage: {sys.argv[0]} <device>"
UsageMsg(av) == "Usage: " \o av[1] \o " <device>"

\* Variant of ErrorMsg: a generic diagnostic that drops the provider's message.
ErrorMsgGeneric(err) == "ERROR: could not read disc"

\* Line 25: f"ERROR: {e}"; str() of a DiscError is its message.
ErrorMsg(err) == "ERROR: " \o err.msg

\* Variant of TooFewArgs: len(sys.argv) != 2, rejecting extra arguments too.
TooFewArgsStrict(av) == Len(av) # 2

\* Line 15: len(sys.argv) < 2
TooFewArgs(av) == Len(av) < 2

\* Variant of DeviceArg: sys.argv[-1], the last argument.
DeviceArgLast(av) == av[Len(av)]

\* Line 19: sys.argv[1]
DeviceArg(av) == av[2]

Goto(p) == /\ pc' = p
           /\ path' = Append(path, p)

Init ==
    /\ pc = "CheckDependency"
    /\ installed \in BOOLEAN
    /\ argv \in ArgLists
    /\ discid = FALSE
    /\ device = <<>>
    /\ reads = <<>>
    /\ disc = <<>>
    /\ e = <<>>
    /\ stdout = ""
    /\ stderr = ""
    /\ exitStatus = <<>>
    /\ path = <<"CheckDependency">>

\* Lines 8-9: the import succeeds.
ImportDiscid ==
    /\ pc = "CheckDependency"
    /\ installed
    /\ discid' = TRUE
    /\ Goto("CheckArgs")
    /\ UNCHANGED <<installed, argv, device, reads, disc, e,
                   stdout, stderr, exitStatus>>

\* Variant of ImportFails: the argument count is looked at before the
\* failed import is reported.
ImportFailsAfterArgs ==
    /\ pc = "CheckDependency"
    /\ ~installed
    /\ IF TooFewArgs(argv)
          THEN /\ stderr' = WriteLine(stderr, UsageMsg(argv))
               /\ Goto("UsageError")
          ELSE /\ stderr' = WriteLine(WriteLine(stderr, NotInstalledMsg),
                                      InstallHintMsg)
               /\ Goto("DependencyMissing")
    /\ exitStatus' = <<1>>
    /\ UNCHANGED <<installed, argv, discid, device, reads, disc, e, stdout>>

\* Lines 8-13: the import raises ImportError.
ImportFails ==
    /\ pc = "CheckDependency"
    /\ ~installed
    /\ stderr' = WriteLine(WriteLine(stderr, NotInstalledMsg), InstallHintMsg)
    /\ exitStatus' = <<1>>
    /\ Goto("DependencyMissing")
    /\ UNCHANGED <<installed, argv, discid, device, reads, disc, e, stdout>>

\* Variant of Usage: sys.exit(2), the status argument parsers use.
UsageExit2 ==
    /\ pc = "CheckArgs"
    /\ TooFewArgs(argv)
    /\ stderr' = WriteLine(stderr, UsageMsg(argv))
    /\ exitStatus' = <<2>>
    /\ Goto("UsageError")
    /\ UNCHANGED <<installed, argv, discid, device, reads, disc, e, stdout>>

\* Lines 15-17: no argument after the program name.
Usage ==
    /\ pc = "CheckArgs"
    /\ TooFewArgs(argv)
    /\ stderr' = WriteLine(stderr, UsageMsg(argv))
    /\ exitStatus' = <<1>>
    /\ Goto("UsageError")
    /\ UNCHANGED <<installed, argv, discid, device, reads, disc, e, stdout>>

\* Lines 15 and 19: the argument check passes and device is bound.
BindDevice ==
    /\ pc = "CheckArgs"
    /\ ~TooFewArgs(argv)
    /\ device' = <<DeviceArg(argv)>>
    /\ Goto("ReadDisc")
    /\ UNCHANGED <<installed, argv, discid, reads, disc, e,
                   stdout, stderr, exitStatus>>

\* Variant of CallRead: the drive is probed with a first read before the
\* read whose result is used.
CallReadTwice ==
    /\ pc = "ReadDisc"
    /\ discid
    /\ reads' = reads \o <<device[1], device[1]>>
    /\ Goto("Reading")
    /\ UNCHANGED <<installed, argv, discid, device, disc, e,
                   stdout, stderr, exitStatus>>

\* Line 22: discid.read(device) is called; the call may block on the drive.
CallRead ==
    /\ pc = "ReadDisc"
    /\ discid
    /\ reads' = Append(reads, device[1])
    /\ Goto("Reading")
    /\ UNCHANGED <<installed, argv, discid, device, disc, e,
                   stdout, stderr, exitStatus>>

\* Variant of ReadReturns: the id is written without the newline print adds.
ReadReturnsNoNewline ==
    /\ pc = "Reading"
    /\ \E id \in DiscIds :
          /\ disc' = <<[id |-> id]>>
          /\ stdout' = stdout \o id
    /\ exitStatus' = <<0>>
    /\ Goto("Success")
    /\ UNCHANGED <<installed, argv, discid, device, reads, e, stderr>>

\* Lines 22-23 and the end of the script: the read returns a disc, its id
\* is printed and the interpreter exits with status 0.
ReadReturns ==
    /\ pc = "Reading"
    /\ \E id \in DiscIds :
          /\ disc' = <<[id |-> id]>>
          /\ stdout' = WriteLine(stdout, id)
    /\ exitStatus' = <<0>>
    /\ Goto("Success")
    /\ UNCHANGED <<installed, argv, discid, device, reads, e, stderr>>

\* Variant of ReadRaises: the handler lacks sys.exit(1), so the script runs
\* off its end and exits with status 0.
ReadRaisesSwallowed ==
    /\ pc = "Reading"
    /\ \E m \in Messages :
          /\ e' = <<[msg |-> m]>>
          /\ stderr' = WriteLine(stderr, ErrorMsg([msg |-> m]))
    /\ exitStatus' = <<0>>
    /\ Goto("DiscReadError")
    /\ UNCHANGED <<installed, argv, discid, device, reads, disc, stdout>>

\* Variant of ReadRaises: a first failed read is retried once.
ReadRaisesRetry ==
    /\ pc = "Reading"
    /\ \E m \in Messages :
          /\ e' = <<[msg |-> m]>>
          /\ IF Len(reads) < 2
                THEN /\ Goto("ReadDisc")
                     /\ UNCHANGED <<stderr, exitStatus>>
                ELSE /\ stderr' = WriteLine(stderr, ErrorMsg([msg |-> m]))
                     /\ exitStatus' = <<1>>
                     /\ Goto("DiscReadError")
    /\ UNCHANGED <<installed, argv, discid, device, reads, disc, stdout>>

\* Lines 22 and 24-26: the read raises DiscError.
ReadRaises ==
    /\ pc = "Reading"
    /\ \E m \in Messages :
          /\ e' = <<[msg |-> m]>>
          /\ stderr' = WriteLine(stderr, ErrorMsg([msg |-> m]))
    /\ exitStatus' = <<1>>
    /\ Goto("DiscReadError")
    /\ UNCHANGED <<installed, argv, discid, device, reads, disc, stdout>>

Next ==
    \/ ImportDiscid
    \/ ImportFails
    \/ Usage
    \/ BindDevice
    \/ CallRead
    \/ ReadReturns
    \/ ReadRaises

Spec == Init /\ [][Next]_vars

\* The script runs to completion: the interpreter keeps executing, and the
\* provider's read call returns.
FairSpec == Spec /\ WF_vars(Next)

(***************************************************************************)
(* Properties                                                              *)
(***************************************************************************)

Exited == exitStatus # <<>>

FailureStates == {"DependencyMissing", "UsageError", "DiscReadError"}

\* The text the import failure writes to stderr (lines 11 and 12).
DependencyDiagnostic == NotInstalledMsg \o "\n" \o InstallHintMsg \o "\n"

\* C1: no disc ID is written for a failed read, and the outcomes exclude
\* each other: an invocation ends either with the disc ID on stdout, nothing
\* on stderr and status 0, or with nothing on stdout, a diagnostic on stderr
\* and a non-zero status; status 0 never comes without a disc ID on stdout.
C1_ExclusiveOutcomes ==
    /\ e # <<>> => stdout = ""
    /\ ~(stdout # "" /\ stderr # "")
    /\ exitStatus = <<0>> => disc # <<>> /\ stdout # ""
    /\ pc \in Terminal =>
          \/ /\ disc # <<>>
             /\ stdout = disc[1].id \o "\n"
             /\ stderr = ""
             /\ exitStatus = <<0>>
          \/ /\ stdout = ""
             /\ stderr # ""
             /\ Exited
             /\ exitStatus # <<0>>

C1_Witness ==
    /\ pc = "DiscReadError"
    /\ e # <<>>
    /\ stdout = ""
    /\ stderr # ""
    /\ exitStatus = <<1>>

\* C2 as stated: with the provider available, every argument list whose
\* number of positional arguments is not exactly one never reaches the read
\* and ends with the usage message on stderr and a non-zero status.
C2_ExactlyOneArgument ==
    (installed /\ Len(argv) # 2) =>
        /\ reads = <<>>
        /\ pc \in Terminal =>
              /\ stderr = UsageMsg(argv) \o "\n"
              /\ Exited
              /\ exitStatus # <<0>>

\* C2 as amended: with the provider available, an argument list with no
\* positional argument never reaches the read and ends with the usage
\* message on stderr and a non-zero status; an argument list with two or
\* more positional arguments is accepted: no usage message is written and
\* the read is invoked with the first of them.
C2_AtLeastOneArgument ==
    /\ (installed /\ Len(argv) < 2) =>
          /\ reads = <<>>
          /\ pc \in Terminal =>
                /\ pc = "UsageError"
                /\ stderr = UsageMsg(argv) \o "\n"
                /\ Exited
                /\ exitStatus # <<0>>
    /\ (installed /\ Len(argv) > 2) =>
          /\ pc # "UsageError"
          /\ stderr # UsageMsg(argv) \o "\n"
          /\ pc \in Terminal => reads = <<argv[2]>>

C2_Witness ==
    /\ installed
    /\ Len(argv) = 1
    /\ pc = "UsageError"
    /\ reads = <<>>

\* C3: the dependency is checked first: when the provider is unavailable,
\* then whatever the argument list, the invocation ends in DependencyMissing
\* with exactly the dependency diagnostic on stderr and a non-zero status;
\* the usage message and a disc ID are never written, the argument check is
\* never reached and the read is never attempted.
C3_DependencyFirst ==
    /\ [](~installed =>
            /\ pc \in {"CheckDependency", "DependencyMissing"}
            /\ reads = <<>>
            /\ stdout = ""
            /\ stderr # UsageMsg(argv) \o "\n"
            /\ pc \in Terminal =>
                  /\ stderr = DependencyDiagnostic
                  /\ Exited
                  /\ exitStatus # <<0>>)
    /\ (~installed) ~> (pc = "DependencyMissing")

C3_Witness ==
    /\ ~installed
    /\ Len(argv) = 1
    /\ pc = "DependencyMissing"
    /\ stderr = DependencyDiagnostic

\* C4: when the read succeeds returning disc ID s, stdout is exactly s
\* followed by a newline, stderr is empty and the status is 0, for every s
\* the provider can return; this happens only with the provider available
\* and a device path supplied.
C4_SuccessPrintsId ==
    /\ disc # <<>> =>
          /\ pc = "Success"
          /\ disc[1].id \in DiscIds
          /\ stdout = disc[1].id \o "\n"
          /\ stderr = ""
          /\ exitStatus = <<0>>
    /\ pc = "Success" => disc # <<>> /\ installed /\ Len(argv) >= 2

C4_Witness ==
    /\ pc = "Success"
    /\ disc = <<[id |-> "abc123XYZ"]>>
    /\ stdout = "abc123XYZ\n"

\* C5: when the read fails with a disc-read error carrying message m, stderr
\* is exactly "ERROR: m" followed by a newline, stdout is empty and the
\* status is non-zero.
C5_ReadErrorReported ==
    /\ e # <<>> =>
          /\ pc = "DiscReadError"
          /\ e[1].msg \in Messages
          /\ stderr = "ERROR: " \o e[1].msg \o "\n"
          /\ stdout = ""
          /\ Exited
          /\ exitStatus # <<0>>
    /\ pc = "DiscReadError" => e # <<>> /\ installed /\ Len(argv) >= 2

C5_Witness ==
    /\ pc = "DiscReadError"
    /\ e = <<[msg |-> "no disc in drive"]>>
    /\ stderr = "ERROR: no disc in drive\n"

\* C6: with the provider available and no argument after the program name,
\* the invocation ends in UsageError: stderr is the usage message built from
\* argv[0], stdout is empty, the status is non-zero and the read is never
\* invoked.
C6_NoArgumentsUsage ==
    /\ []((installed /\ Len(argv) = 1) =>
            /\ reads = <<>>
            /\ stdout = ""
            /\ pc \in Terminal =>
                  /\ pc = "UsageError"
                  /\ stderr = "Usage: " \o argv[1] \o " <device>\n"
                  /\ Exited
                  /\ exitStatus # <<0>>)
    /\ (installed /\ Len(argv) = 1) ~> (pc = "UsageError")

C6_Witness ==
    /\ installed
    /\ argv = <<"./discid">>
    /\ pc = "UsageError"
    /\ stderr = "Usage: ./discid <device>\n"

\* C7: the exit status is 0 or 1; it is 0 exactly when the read succeeded
\* and the disc ID was printed, and 1 in each of the three failure states.
C7_ExitCodes ==
    /\ exitStatus \in {<<>>, <<0>>, <<1>>}
    /\ Exited <=> pc \in Terminal
    /\ exitStatus = <<0>> <=>
          (pc = "Success" /\ disc # <<>> /\ stdout # "")
    /\ pc \in FailureStates => exitStatus = <<1>>

C7_Witness ==
    /\ pc = "UsageError"
    /\ exitStatus = <<1>>
    /\ stdout = ""

\* C8: the read is invoked at most once, and a failed read leads directly
\* to the DiscReadError terminal state with no further read.
C8_NoRetries ==
    /\ [](Len(reads) <= 1)
    /\ [](e # <<>> => pc = "DiscReadError" /\ Len(reads) = 1)
    /\ [][e' # e => pc' = "DiscReadError" /\ reads' = reads]_vars
    /\ [][e # <<>> => reads' = reads]_vars

C8_Witness ==
    /\ pc = "DiscReadError"
    /\ e # <<>>
    /\ Len(reads) = 1

\* C9: the control flow is linear and loop-free: given that the read call
\* returns, every invocation eventually reaches a terminal state, exactly
\* one of Success, DependencyMissing, UsageError and DiscReadError; no
\* position is visited twice and no step is taken from a terminal state.
C9_LinearControlFlow ==
    /\ <>(pc \in Terminal)
    /\ [](/\ pc = path[Len(path)]
          /\ \A i, j \in DOMAIN path : path[i] = path[j] => i = j
          /\ Cardinality({i \in DOMAIN path : path[i] \in Terminal}) <= 1
          /\ pc \in Terminal =>
                Cardinality({i \in DOMAIN path : path[i] \in Terminal}) = 1)
    /\ [][pc \notin Terminal]_vars

C9_Witness ==
    /\ pc = "Success"
    /\ path = <<"CheckDependency", "CheckArgs", "ReadDisc", "Reading",
                "Success">>

\* C10: whenever the read is invoked, the provider is available, at least
\* one positional argument was supplied and the device passed is argv[1]
\* unchanged, whatever its value; further arguments change nothing: with the
\* provider available and at least one argument the read is invoked with
\* argv[1], and the output and the status are those of the read's outcome.
C10_DeviceIsFirstArgument ==
    /\ reads # <<>> =>
          /\ installed
          /\ discid
          /\ Len(argv) >= 2
          /\ \A i \in DOMAIN reads : reads[i] = argv[2]
    /\ (installed /\ Len(argv) >= 2 /\ pc \in Terminal) =>
          /\ reads = <<argv[2]>>
          /\ \/ /\ disc # <<>>
                /\ stdout = disc[1].id \o "\n"
                /\ stderr = ""
                /\ exitStatus = <<0>>
             \/ /\ e # <<>>
                /\ stdout = ""
                /\ stderr = "ERROR: " \o e[1].msg \o "\n"
                /\ exitStatus = <<1>>

C10_Witness ==
    /\ Len(argv) = 3
    /\ argv[2] = ""
    /\ argv[3] = "/dev/sr0"
    /\ reads = <<"">>
    /\ pc = "Success"

====
